---- MODULE Spec2Model ----
(***************************************************************************)
(* Model of the `opensearch` management command of django-opensearch-dsl   *)
(* (django_opensearch_dsl/management/commands/opensearch.py): the filter   *)
(* parser `db_filter.wrap` and the `document` sub-command                  *)
(* `_manage_document`.                                                     *)
(*                                                                         *)
(* Python strings that the code takes apart (`.lower()`, `.split("=")`)    *)
(* are sequences of one-character strings.  Names that are only compared   *)
(* as a whole (index names, document classes, database aliases) are TLA+   *)
(* strings.  `None`, an empty list and an option that was not given are    *)
(* all falsy in the tests the code makes (`if objects:`, `if indices:`,    *)
(* `if filters`), and are the empty sequence here; a Q object is the       *)
(* sequence of its AND-ed atoms and `None` is the empty sequence (the code *)
(* never builds an empty Q).                                               *)
(***************************************************************************)
EXTENDS Integers, Sequences, FiniteSets, TLC

VARIABLES
    options,             \* the parsed command line handed to _manage_document
    created,             \* indices that exist in the search engine
    pc,                  \* position in the handler
    exitCode,            \* -1 while running, then the process exit code
    valid_models,        \* l.95
    indices,             \* l.115/117: the resolved indices
    selected_os_models,  \* l.133
    kwargs_list,         \* l.128
    s,                   \* l.127: the pre-run summary, one entry per counted target
    result,              \* l.188: the post-run report, one entry per reported target
    n,                   \* position of the running `for` loop
    p,                   \* l.181: the last answer read from the operator
    asked,               \* whether input() was called
    stdout,              \* what was written to self.stdout
    stderr,              \* what was written to self.stderr
    qsCalls,             \* calls of Document.get_queryset, in order
    iqCalls,             \* calls of Document.get_indexing_queryset, in order
    updates,             \* calls of Document.update, in order
    argv,                \* raw filter tokens still to be converted by argparse
    parsed               \* what db_filter.wrap did with each token so far

vars == <<options, created, pc, exitCode, valid_models, indices, selected_os_models,
          kwargs_list, s, result, n, p, asked, stdout, stderr, qsCalls, iqCalls,
          updates, argv, parsed>>

-----------------------------------------------------------------------------
(* Bounds *)

MaxSuccess == 1    \* largest success count Document.update returns
MaxErrors == 1     \* longest error list Document.update returns
MaxTokenLen == 3   \* longest raw filter token
MaxTokens == 2     \* raw filter tokens on one command line

-----------------------------------------------------------------------------
(* Python strings *)

UpperLetters == <<"A","B","C","D","E","F","G","H","I","J","K","L","M",
                  "N","O","P","Q","R","S","T","U","V","W","X","Y","Z">>
LowerLetters == <<"a","b","c","d","e","f","g","h","i","j","k","l","m",
                  "n","o","p","q","r","s","t","u","v","w","x","y","z">>

LowerChar(c) ==
    IF \E i \in 1..26 : UpperLetters[i] = c
    THEN LowerLetters[CHOOSE i \in 1..26 : UpperLetters[i] = c]
    ELSE c

\* str.lower()
Lower(str) == [i \in 1..Len(str) |-> LowerChar(str[i])]

\* x in list
InList(x, list) == \E i \in 1..Len(list) : list[i] = x

\* str.split(sep): the parts between the occurrences of the character sep
RECURSIVE Split(_, _)
Split(str, sep) ==
    IF \A i \in 1..Len(str) : str[i] # sep
    THEN <<str>>
    ELSE LET k == CHOOSE i \in 1..Len(str) :
                      str[i] = sep /\ \A j \in 1..(i - 1) : str[j] # sep
         IN <<SubSeq(str, 1, k - 1)>> \o Split(SubSeq(str, k + 1, Len(str)), sep)

-----------------------------------------------------------------------------
(* types.parse: the coercion of a filter value.  Coerced values are records  *)
(* of one shape: kind, and the number, text or items that kind carries.      *)

PyNone == [kind |-> "none", num |-> 0, text |-> <<>>, items |-> <<>>]
PyNum(k) == [kind |-> "num", num |-> k, text |-> <<>>, items |-> <<>>]
PyStr(str) == [kind |-> "str", num |-> 0, text |-> str, items |-> <<>>]
PyList(list) == [kind |-> "list", num |-> 0, text |-> <<>>, items |-> list]

Digits == <<"0","1","2","3","4","5","6","7","8","9">>
IsDigit(c) == \E d \in 1..10 : Digits[d] = c
DigitValue(c) == (CHOOSE d \in 1..10 : Digits[d] = c) - 1

RECURSIVE NumValue(_)
NumValue(str) ==
    IF str = <<>> THEN 0
    ELSE 10 * NumValue(SubSeq(str, 1, Len(str) - 1)) + DigitValue(str[Len(str)])

\* a value without a comma: empty -> None, a number, else the literal string
ParseScalar(str) ==
    IF str = <<>> THEN PyNone
    ELSE IF \A i \in 1..Len(str) : IsDigit(str[i]) THEN PyNum(NumValue(str))
    ELSE PyStr(str)

parse(str) ==
    IF \E i \in 1..Len(str) : str[i] = ","
    THEN LET segs == Split(str, ",")
         IN PyList([i \in 1..Len(segs) |-> ParseScalar(segs[i])])
    ELSE ParseScalar(str)

-----------------------------------------------------------------------------
(* db_filter.wrap, l.35-46 *)

\* `lookup, v = value.split("=")` raises ValueError unless there are exactly
\* two parts; then the handler writes the usage and exits with 1.
wrap(value) ==
    LET parts == Split(value, "=")
    IN IF Len(parts) = 2
       THEN [ok |-> TRUE, lookup |-> parts[1], v |-> parse(parts[2])]
       ELSE [ok |-> FALSE, lookup |-> <<>>, v |-> PyNone]

-----------------------------------------------------------------------------
(* The registry (django_opensearch_dsl.registries.registry) of the project   *)
(* the command runs in: two models, each with one document class, each       *)
(* document class in an index of its own.                                    *)

Article == <<"A","r","t","i","c","l","e">>
Book == <<"B","o","o","k">>

\* registry.get_models()
get_models == <<Article, Book>>

\* registry.get_indices(), by Index._name
get_indices == <<"articles", "books">>

\* registry.get_indices_raw(): index -> its document classes, flattened in
\* iteration order (l.136-138)
all_os_models == <<"ArticleDocument", "BookDocument">>

\* os_model.django.model.__name__
DjangoModel(doc) == IF doc = "ArticleDocument" THEN Article ELSE Book

\* os_model.Index.name
IndexName(doc) == IF doc = "ArticleDocument" THEN "articles" ELSE "books"

\* index._doc_types[0]
FirstDocType(index) == IF index = "articles" THEN "ArticleDocument" ELSE "BookDocument"

\* [h.meta.id for h in index.search().extra(stored_fields=[]).scan()]: the ids
\* of the documents already in the index
ScanIds(index) ==
    IF index = "articles" THEN <<PyStr(<<"1">>), PyStr(<<"2">>)>> ELSE <<PyStr(<<"7">>)>>

-----------------------------------------------------------------------------
(* Command lines *)

ActionInputs == {"index", "update", "delete"}                        \* l.312-316

IndicesInputs == { <<>>, <<"articles">>, <<"books">>, <<"books", "articles">>,
                   <<"nope">>, <<"articles", "nope">> }

ObjectsInputs == { <<>>, <<Lower(Article)>>, <<Article>>,
                   <<Lower(Article), Lower(Book)>>, <<Lower(Book), Article>>,
                   <<<<"G","h","o","s","t">>>>, <<Lower(Article), <<"g","h","o","s","t">>>> }

\* --filters / --excludes, already converted by db_filter.wrap
Converted(token) == <<wrap(token).lookup, wrap(token).v>>
FiltersInputs == { <<>>, <<Converted(<<"i","d","=","1">>)>> }
ExcludesInputs == { <<>>, <<Converted(<<"t","a","g","=","x",",","y">>)>> }

DatabaseInputs == {"None", "replica"}                                \* l.318-324
VerbosityInputs == {0, 1, 2}

AnswerInputs == { <<"y">>, <<"Y","E","S">>, <<"n">>, <<"N","o">>, <<>>, <<"o","k">> }

\* the descriptor of one rejected document: the engine's reason, or nothing
ErrorInputs == { <<"not_found">>, <<>> }

RECURSIVE SeqsUpTo(_, _)
SeqsUpTo(S, k) ==
    IF k = 0 THEN {<<>>}
    ELSE LET shorter == SeqsUpTo(S, k - 1)
         IN shorter \cup {Append(q, x) : q \in {r \in shorter : Len(r) = k - 1}, x \in S}

-----------------------------------------------------------------------------
(* _manage_document, l.70-252 *)

\* functools.reduce(operator.and_, (Q(**{k: v}) for k, v in filters)), l.91-92
ReduceAnd(filters) == filters

filter_ == ReduceAnd(options.filters)
exclude == ReduceAnd(options.excludes)

\* l.96
registered_models == [i \in 1..Len(get_models) |-> Lower(get_models[i])]

Exit1 == pc' = "exit" /\ exitCode' = 1

\* l.94-103
ValidateObjects ==
    /\ pc = "validate_objects"
    /\ LET objects == options.objects
           bad == {i \in 1..Len(objects) : ~InList(Lower(objects[i]), registered_models)}
       IN IF bad # {}
          THEN LET k == CHOOSE i \in bad : \A j \in bad : i <= j
               IN /\ valid_models' = SubSeq(objects, 1, k - 1)
                  /\ stderr' = Append(stderr, <<"Unknown object", objects[k]>>)
                  /\ Exit1
          ELSE /\ valid_models' = objects
               /\ pc' = "filter_indices"
               /\ UNCHANGED <<stderr, exitCode>>
    /\ UNCHANGED <<options, created, indices, selected_os_models, kwargs_list, s, result,
                   n, p, asked, stdout, qsCalls, iqCalls, updates, argv, parsed>>

\* a check of the first given name only
Mut_UnknownIndices(given) ==
    {given[1]} \ {get_indices[i] : i \in 1..Len(get_indices)}

\* l.108-109: set(indices) - set(known_name)
UnknownIndices(given) ==
    {given[i] : i \in 1..Len(given)} \ {get_indices[i] : i \in 1..Len(get_indices)}

\* l.105-117
FilterIndices ==
    /\ pc = "filter_indices"
    /\ LET given == options.indices
           unknown == UnknownIndices(given)
       IN IF given # <<>>
          THEN IF unknown # {}
               THEN /\ stderr' = Append(stderr, <<"Unknown indices", unknown>>)
                    /\ Exit1
                    /\ UNCHANGED indices
               ELSE /\ indices' = SelectSeq(get_indices, LAMBDA i : InList(i, given))
                    /\ pc' = "ensure_created"
                    /\ UNCHANGED <<stderr, exitCode>>
          ELSE /\ indices' = get_indices
               /\ pc' = "ensure_created"
               /\ UNCHANGED <<stderr, exitCode>>
    /\ UNCHANGED <<options, created, valid_models, selected_os_models, kwargs_list, s,
                   result, n, p, asked, stdout, qsCalls, iqCalls, updates, argv, parsed>>

\* the test of i.exists() without its `not`
Mut_NotCreated(resolved) == SelectSeq(resolved, LAMBDA i : i \in created)

\* l.120: [i._name for i in indices if not i.exists()]
NotCreated(resolved) == SelectSeq(resolved, LAMBDA i : i \notin created)

\* l.119-124
EnsureCreated ==
    /\ pc = "ensure_created"
    /\ LET not_created == NotCreated(indices)
       IN IF not_created # <<>>
          THEN /\ stderr' = stderr \o <<<<"not created", not_created>>, <<"Use list">>>>
               /\ Exit1
          ELSE /\ pc' = IF options.objects # <<>> THEN "select_models" ELSE "count_indices"
               /\ UNCHANGED <<stderr, exitCode>>
    /\ UNCHANGED <<options, created, valid_models, indices, selected_os_models, kwargs_list,
                   s, result, n, p, asked, stdout, qsCalls, iqCalls, updates, argv, parsed>>

\* l.130-142
SelectModels ==
    /\ pc = "select_models"
    /\ LET django_models == SelectSeq(get_models, LAMBDA m : InList(Lower(m), valid_models))
       IN selected_os_models' =
              SelectSeq(all_os_models,
                        LAMBDA d : InList(DjangoModel(d), django_models)
                                   /\ InList(IndexName(d), indices))
    /\ pc' = "count_objects"
    /\ UNCHANGED <<options, created, exitCode, valid_models, indices, kwargs_list, s, result,
                   n, p, asked, stdout, stderr, qsCalls, iqCalls, updates, argv, parsed>>

\* model().get_queryset(filter_, exclude, count).count() on the project's
\* store: every AND-ed atom narrows the rows of the model's table
StoreCount(document, f, e) ==
    (IF document = "ArticleDocument" THEN 5 ELSE 4) - Len(f) - Len(e)

\* the store can reject a lookup only if the operator gave one
MayRaiseFieldError == options.filters # <<>> \/ options.excludes # <<>>

\* the handler going on with the next target instead of exiting
Mut_FieldError(model) ==
    /\ stderr' = Append(stderr, <<"Error while filtering on", model>>)
    /\ n' = n + 1
    /\ UNCHANGED <<pc, exitCode, s>>

\* l.150-152 and l.167-170: `except FieldError`
FieldError(model) ==
    /\ stderr' = Append(stderr, <<"Error while filtering on", model>>)
    /\ Exit1
    /\ UNCHANGED <<s, n>>

\* l.144-154, one turn of the loop over selected_os_models
CountObject ==
    /\ pc = "count_objects"
    /\ n <= Len(selected_os_models)
    /\ LET model == selected_os_models[n]
           exclude_ == exclude
           kwargs == [filter_ |-> filter_, exclude |-> exclude_, count |-> options.count]
           call == [document |-> model, filter_ |-> filter_, exclude |-> exclude_,
                    count |-> options.count]
       IN /\ kwargs_list' = Append(kwargs_list, kwargs)
          /\ qsCalls' = Append(qsCalls, call)
          /\ \/ /\ MayRaiseFieldError
                /\ FieldError(DjangoModel(model))
             \/ /\ s' = Append(s, <<StoreCount(model, filter_, exclude_), DjangoModel(model)>>)
                /\ n' = n + 1
                /\ UNCHANGED <<pc, exitCode, stderr>>
    /\ UNCHANGED <<options, created, valid_models, indices, selected_os_models, result, p,
                   asked, stdout, iqCalls, updates, argv, parsed>>

PkIn(ids) == <<<<"p","k","_","_","i","n">>, PyList(ids)>>

\* the operator's exclude recorded in place of the one the count is made with
Mut_IndexKwargs(exclude_) ==
    [db_alias |-> options.database, filter_ |-> filter_, exclude |-> exclude,
     count |-> options.count]

\* l.165: the keyword arguments recorded for the index
IndexKwargs(exclude_) ==
    [db_alias |-> options.database, filter_ |-> filter_, exclude |-> exclude_,
     count |-> options.count]

\* l.156-172, one turn of the loop over indices
CountIndex ==
    /\ pc = "count_indices"
    /\ n <= Len(indices)
    /\ LET index == indices[n]
           q == <<PkIn(ScanIds(index))>>
           exclude_ == IF options.missing /\ options.action = "index"
                       THEN (IF exclude # <<>> THEN exclude \o q ELSE q)
                       ELSE exclude
           document == FirstDocType(index)
           kwargs == IndexKwargs(exclude_)
           call == [document |-> document, filter_ |-> filter_, exclude |-> exclude_,
                    count |-> options.count]
       IN /\ kwargs_list' = Append(kwargs_list, kwargs)
          /\ qsCalls' = Append(qsCalls, call)
          /\ \/ /\ MayRaiseFieldError
                /\ FieldError(DjangoModel(document))
             \/ /\ s' = Append(s, <<StoreCount(document, filter_, exclude_), DjangoModel(document)>>)
                /\ n' = n + 1
                /\ UNCHANGED <<pc, exitCode, stderr>>
    /\ UNCHANGED <<options, created, valid_models, indices, selected_os_models, result, p,
                   asked, stdout, iqCalls, updates, argv, parsed>>

\* l.174-179, once the loop that counts is over
DisplaySummary ==
    /\ \/ pc = "count_objects" /\ n > Len(selected_os_models)
       \/ pc = "count_indices" /\ n > Len(indices)
    /\ stdout' = IF options.verbosity > 0 \/ ~options.force
                 THEN Append(stdout, [what |-> "summary", lines |-> s])
                 ELSE stdout
    /\ pc' = IF options.force THEN "execute" ELSE "confirm"
    /\ n' = 1
    /\ UNCHANGED <<options, created, exitCode, valid_models, indices, selected_os_models,
                   kwargs_list, s, result, p, asked, stderr, qsCalls, iqCalls, updates,
                   argv, parsed>>

\* the answer compared as it was typed
Mut_AnswerKey(answer) == answer

\* l.182, l.185: p.lower()
AnswerKey(answer) == Lower(answer)

Yes == { <<"y","e","s">>, <<"y">> }
No == { <<"n","o">>, <<"n">> }

\* l.180-186, one turn of the `while True` loop
Confirm ==
    /\ pc = "confirm"
    /\ \E answer \in AnswerInputs :
          /\ p' = answer
          /\ asked' = TRUE
          /\ IF AnswerKey(answer) \in Yes
             THEN /\ stdout' = Append(stdout, [what |-> "newline", lines |-> <<>>])
                  /\ pc' = "execute"
                  /\ UNCHANGED exitCode
             ELSE IF AnswerKey(answer) \in No
             THEN /\ Exit1
                  /\ UNCHANGED stdout
             ELSE UNCHANGED <<pc, exitCode, stdout>>
    /\ UNCHANGED <<options, created, valid_models, indices, selected_os_models, kwargs_list,
                   s, result, n, stderr, qsCalls, iqCalls, updates, argv, parsed>>

\* the keyword arguments get_indexing_queryset receives: **kwargs, and the
\* default None for db_alias when kwargs has no such key
IndexingCall(document, kwargs) ==
    [document |-> document,
     action |-> options.action,
     db_alias |-> IF "db_alias" \in DOMAIN kwargs THEN kwargs.db_alias ELSE "None",
     filter_ |-> kwargs.filter_,
     exclude |-> kwargs.exclude,
     count |-> kwargs.count]

\* l.210-213: the reason of one error descriptor
Reason(e) == IF e = <<>> THEN "unknown error" ELSE e[1]

\* l.210-215: the reasons in order of first occurrence, each with its total
RECURSIVE Reasons(_)
Reasons(errors) ==
    IF errors = <<>> THEN <<>>
    ELSE LET before == Reasons(SubSeq(errors, 1, Len(errors) - 1))
             error == Reason(errors[Len(errors)])
         IN IF \E i \in 1..Len(before) : before[i][1] = error
            THEN [i \in 1..Len(before) |->
                     IF before[i][1] = error THEN <<error, before[i][2] + 1>> ELSE before[i]]
            ELSE Append(before, <<error, 1>>)

\* l.204-218 / l.235-249: what one target adds to `result`
ReportEntries(document, success, errors) ==
    IF options.verbosity = 0 THEN <<>>
    ELSE <<[success |-> success,
            model |-> DjangoModel(document),
            errors |-> Len(errors),
            detail |-> IF options.verbosity = 1 THEN Reasons(errors) ELSE errors]>>

\* Document.update(qs, parallel, refresh, action, raise_on_error=False) and
\* what it returns
UpdateCall(document, success, errors) ==
    [document |-> document, action |-> options.action, raise_on_error |-> FALSE,
     success |-> success, errors |-> errors]

\* the pairs zip(targets, kwargs_list) yields
Zip(targets, kwargs) ==
    [i \in 1..(IF Len(targets) < Len(kwargs) THEN Len(targets) ELSE Len(kwargs)) |->
        <<targets[i], kwargs[i]>>]

\* update called with raise_on_error=True: the first rejected document
\* raises, and the uncaught exception ends the command
Mut_Execute(documents) ==
    /\ pc = "execute"
    /\ n <= Len(Zip(documents, kwargs_list))
    /\ LET document == Zip(documents, kwargs_list)[n][1]
           kwargs == Zip(documents, kwargs_list)[n][2]
       IN /\ iqCalls' = Append(iqCalls, IndexingCall(document, kwargs))
          /\ \E success \in 0..MaxSuccess, errors \in SeqsUpTo(ErrorInputs, MaxErrors) :
                /\ updates' = Append(updates, [UpdateCall(document, success, errors)
                                                  EXCEPT !.raise_on_error = TRUE])
                /\ IF errors # <<>>
                   THEN Exit1 /\ UNCHANGED <<result, n>>
                   ELSE /\ result' = result \o ReportEntries(document, success, errors)
                        /\ n' = n + 1
                        /\ UNCHANGED <<pc, exitCode>>
    /\ UNCHANGED <<options, created, valid_models, indices,
                   selected_os_models, kwargs_list, s, p, asked, stdout, stderr, qsCalls,
                   argv, parsed>>

\* one turn of either loop of l.189-249
Execute(documents) ==
    /\ pc = "execute"
    /\ n <= Len(Zip(documents, kwargs_list))
    /\ LET document == Zip(documents, kwargs_list)[n][1]
           kwargs == Zip(documents, kwargs_list)[n][2]
       IN /\ iqCalls' = Append(iqCalls, IndexingCall(document, kwargs))
          /\ \E success \in 0..MaxSuccess, errors \in SeqsUpTo(ErrorInputs, MaxErrors) :
                /\ updates' = Append(updates, UpdateCall(document, success, errors))
                /\ result' = result \o ReportEntries(document, success, errors)
    /\ n' = n + 1
    /\ UNCHANGED <<options, created, pc, exitCode, valid_models, indices,
                   selected_os_models, kwargs_list, s, p, asked, stdout, stderr, qsCalls,
                   argv, parsed>>

\* l.189-218, one turn of the loop over zip(selected_os_models, kwargs_list)
ExecuteObject ==
    /\ options.objects # <<>>
    /\ Execute(selected_os_models)

\* l.220-249, one turn of the loop over zip(indices, kwargs_list)
ExecuteIndex ==
    /\ options.objects = <<>>
    /\ Execute([i \in 1..Len(indices) |-> FirstDocType(indices[i])])

\* l.251-252, once the loop that executes is over
WriteReport ==
    /\ pc = "execute"
    /\ n > (IF options.objects # <<>>
            THEN Len(Zip(selected_os_models, kwargs_list))
            ELSE Len(Zip(indices, kwargs_list)))
    /\ stdout' = IF options.verbosity > 0
                 THEN Append(stdout, [what |-> "report", lines |-> result])
                 ELSE stdout
    /\ pc' = "done"
    /\ exitCode' = 0
    /\ UNCHANGED <<options, created, valid_models, indices, selected_os_models, kwargs_list,
                   s, result, n, p, asked, stderr, qsCalls, iqCalls, updates, argv, parsed>>

-----------------------------------------------------------------------------

Options ==
    [action : ActionInputs, indices : IndicesInputs, objects : ObjectsInputs,
     force : BOOLEAN, filters : FiltersInputs, excludes : ExcludesInputs,
     verbosity : VerbosityInputs, count : {"None"}, missing : BOOLEAN,
     database : DatabaseInputs]

Init ==
    /\ options \in Options
    /\ created \in SUBSET {get_indices[i] : i \in 1..Len(get_indices)}
    /\ pc = "validate_objects"
    /\ exitCode = -1
    /\ valid_models = <<>>
    /\ indices = <<>>
    /\ selected_os_models = <<>>
    /\ kwargs_list = <<>>
    /\ s = <<>>
    /\ result = <<>>
    /\ n = 1
    /\ p = <<>>
    /\ asked = FALSE
    /\ stdout = <<>>
    /\ stderr = <<>>
    /\ qsCalls = <<>>
    /\ iqCalls = <<>>
    /\ updates = <<>>
    /\ argv = <<>>
    /\ parsed = <<>>

Next ==
    \/ ValidateObjects
    \/ FilterIndices
    \/ EnsureCreated
    \/ SelectModels
    \/ CountObject
    \/ CountIndex
    \/ DisplaySummary
    \/ Confirm
    \/ ExecuteObject
    \/ ExecuteIndex
    \/ WriteReport

Spec == Init /\ [][Next]_vars

-----------------------------------------------------------------------------
(* argparse converting the --filters tokens with db_filter.wrap, then        *)
(* `handle` dispatching to the sub-command, l.326-329 and l.400-407          *)

Alphabet == {"k", "1", "=", ","}
Tokens == SeqsUpTo(Alphabet, MaxTokenLen)

\* l.35-46, applied to the next token of the command line
ConvertFilter ==
    /\ pc = "argparse"
    /\ argv # <<>>
    /\ LET value == Head(argv)
           r == wrap(value)
       IN /\ parsed' = Append(parsed, [value |-> value, ok |-> r.ok,
                                       lookup |-> r.lookup, v |-> r.v])
          /\ IF r.ok
             THEN /\ options' = [options EXCEPT !.filters = Append(@, <<r.lookup, r.v>>)]
                  /\ argv' = Tail(argv)
                  /\ UNCHANGED <<pc, exitCode, stderr>>
             ELSE /\ stderr' = stderr \o <<<<"usage">>, <<"invalid filter", value>>>>
                  /\ Exit1
                  /\ UNCHANGED <<options, argv>>
    /\ UNCHANGED <<created, valid_models, indices, selected_os_models, kwargs_list, s,
                   result, n, p, asked, stdout, qsCalls, iqCalls, updates>>

\* l.400-407
handle ==
    /\ pc = "argparse"
    /\ argv = <<>>
    /\ pc' = "validate_objects"
    /\ UNCHANGED <<options, created, exitCode, valid_models, indices, selected_os_models,
                   kwargs_list, s, result, n, p, asked, stdout, stderr, qsCalls, iqCalls,
                   updates, argv, parsed>>

InitFilter ==
    /\ options = [action |-> "index", indices |-> <<>>, objects |-> <<>>, force |-> TRUE,
                  filters |-> <<>>, excludes |-> <<>>, verbosity |-> 1, count |-> "None",
                  missing |-> FALSE, database |-> "None"]
    /\ created = {get_indices[i] : i \in 1..Len(get_indices)}
    /\ pc = "argparse"
    /\ exitCode = -1
    /\ valid_models = <<>>
    /\ indices = <<>>
    /\ selected_os_models = <<>>
    /\ kwargs_list = <<>>
    /\ s = <<>>
    /\ result = <<>>
    /\ n = 1
    /\ p = <<>>
    /\ asked = FALSE
    /\ stdout = <<>>
    /\ stderr = <<>>
    /\ qsCalls = <<>>
    /\ iqCalls = <<>>
    /\ updates = <<>>
    /\ argv \in SeqsUpTo(Tokens, MaxTokens)
    /\ parsed = <<>>

NextFilter ==
    \/ ConvertFilter
    \/ handle

SpecFilter == InitFilter /\ [][NextFilter]_vars

-----------------------------------------------------------------------------
(* Claims *)

HasEquals(value) == \E i \in 1..Len(value) : value[i] = "="
FirstEquals(value) == CHOOSE i \in 1..Len(value) : value[i] = "=" /\ \A j \in 1..(i - 1) : value[j] # "="

\* C8: the filter parser splits a token on its first '=': a token with at
\* least one '=' is accepted, its lookup is the text before the first '=' and
\* its value the coercion of all the text after it; a token with no '=' is
\* rejected as malformed and the command exits with 1.
C8_SplitsOnFirstEquals ==
    \A i \in 1..Len(parsed) :
        LET e == parsed[i]
        IN IF HasEquals(e.value)
           THEN /\ e.ok
                /\ e.lookup = SubSeq(e.value, 1, FirstEquals(e.value) - 1)
                /\ e.v = parse(SubSeq(e.value, FirstEquals(e.value) + 1, Len(e.value)))
           ELSE ~e.ok /\ pc = "exit" /\ exitCode = 1


-----------------------------------------------------------------------------
(* Claims about _manage_document *)

KnownIndexNames == {get_indices[i] : i \in 1..Len(get_indices)}
KnownModelNames == {Lower(get_models[i]) : i \in 1..Len(get_models)}

HasUnknownObject ==
    \E i \in 1..Len(options.objects) : Lower(options.objects[i]) \notin KnownModelNames
HasUnknownIndex ==
    \E i \in 1..Len(options.indices) : options.indices[i] \notin KnownIndexNames

\* the document classes the run resolved, in resolution order
Targets ==
    IF options.objects # <<>> THEN selected_os_models
    ELSE [i \in 1..Len(indices) |-> FirstDocType(indices[i])]

Reported(tag) == \E i \in 1..Len(stderr) : stderr[i][1] = tag

\* C1: when --objects names something that is no registered model, or
\* --indices something that is no registered index, the command exits with 1
\* and never calls document.update nor get_indexing_queryset, whatever the
\* other options are: the run never gets past the two name checks.
C1_UnknownNameAborts ==
    (HasUnknownObject \/ HasUnknownIndex) =>
        /\ updates = <<>>
        /\ iqCalls = <<>>
        /\ qsCalls = <<>>
        /\ pc \in {"validate_objects", "filter_indices", "exit"}
        /\ pc = "filter_indices" => HasUnknownIndex
        /\ pc = "exit" => exitCode = 1

\* C1 witness: an unknown index listed next to a valid one, with valid
\* objects and --force, has ended the command.
C1_Witness ==
    /\ pc = "exit"
    /\ exitCode = 1
    /\ options.indices = <<"articles", "nope">>
    /\ options.objects = <<Lower(Article)>>
    /\ options.force
    /\ options.missing

\* C2: every target's queryset is built and counted before the first
\* document.update of any target; when the store rejects the filter on some
\* target the command exits with 1 and no target has been written.
C2_CountsBeforeWrites ==
    /\ updates # <<>> =>
          /\ Len(qsCalls) = Len(Targets)
          /\ \A i \in 1..Len(Targets) : qsCalls[i].document = Targets[i]
    /\ Reported("Error while filtering on") =>
          /\ pc = "exit"
          /\ exitCode = 1
          /\ updates = <<>>
          /\ iqCalls = <<>>

\* C2 witness: the store rejected the filter on the second target.
C2_Witness ==
    /\ Reported("Error while filtering on")
    /\ Len(qsCalls) = 2
    /\ Len(s) = 1
    /\ pc = "exit"

\* C3: an --objects name that equals a registered model's name up to letter
\* case selects that model's document class when its index is among the
\* resolved indices; its count is in the summary and, once the run is over,
\* its documents were submitted with document.update.
C3_CaseInsensitiveSelection ==
    \A i \in 1..Len(options.objects), d \in {all_os_models[k] : k \in 1..Len(all_os_models)} :
        (/\ Lower(options.objects[i]) = Lower(DjangoModel(d))
         /\ InList(IndexName(d), indices)) =>
            /\ pc \in {"count_objects", "confirm", "execute", "done"} =>
                  InList(d, selected_os_models)
            /\ pc \in {"confirm", "execute", "done"} =>
                  \E k \in 1..Len(s) : s[k][2] = DjangoModel(d)
            /\ pc = "done" => \E k \in 1..Len(updates) : updates[k].document = d

\* C4: a resolved index that does not exist in the engine ends the command
\* with 1 and the list of the indices that are not created, before any
\* queryset, prompt or update; the execution phase is reached only when every
\* resolved index exists.
C4_NotCreatedAborts ==
    /\ (\E i \in 1..Len(indices) : indices[i] \notin created) =>
          /\ pc \in {"ensure_created", "exit"}
          /\ qsCalls = <<>>
          /\ ~asked
          /\ stdout = <<>>
          /\ iqCalls = <<>>
          /\ updates = <<>>
          /\ pc = "exit" =>
                /\ exitCode = 1
                /\ stderr[1] = <<"not created", SelectSeq(indices, LAMBDA i : i \notin created)>>
    /\ pc \in {"execute", "done"} => \A i \in 1..Len(indices) : indices[i] \in created

\* C4 witness: one of two resolved indices is missing and the command ended.
C4_Witness ==
    /\ pc = "exit"
    /\ indices = <<"articles", "books">>
    /\ created = {"articles"}
    /\ options.force
    /\ options.objects # <<>>

AnsweredYes == Lower(p) = <<"y","e","s">> \/ Lower(p) = <<"y">>
AnsweredNo == Lower(p) = <<"n","o">> \/ Lower(p) = <<"n">>

C5_Gate ==
    /\ (~options.force /\ (updates # <<>> \/ iqCalls # <<>> \/ pc \in {"execute", "done"})) =>
          asked /\ AnsweredYes
    /\ (asked /\ AnsweredNo) =>
          pc = "exit" /\ exitCode = 1 /\ updates = <<>> /\ iqCalls = <<>>
    /\ (asked /\ ~AnsweredYes /\ ~AnsweredNo) => pc = "confirm"
    /\ options.force => ~asked
    /\ asked => ~options.force

C5_OtherAnswerAsksAgain ==
    (pc = "confirm" /\ asked' /\ ~AnsweredYes' /\ ~AnsweredNo') =>
        /\ pc' = "confirm"
        /\ UNCHANGED <<options, created, exitCode, valid_models, indices,
                       selected_os_models, kwargs_list, s, result, n, stdout, stderr,
                       qsCalls, iqCalls, updates>>

\* C5: without --force nothing is submitted until the operator answered yes
\* or y in any letter case; no or n in any letter case ends the command with 1
\* and nothing written; any other answer changes nothing and the prompt is
\* asked again; with --force the prompt is never shown.
C5_ConfirmationGate == []C5_Gate /\ [][C5_OtherAnswerAsksAgain]_vars

\* C5 witness: the operator answered YES and documents were submitted.
C5_Witness ==
    /\ p = <<"Y","E","S">>
    /\ updates # <<>>
    /\ ~options.force

\* the exclude predicate the claim C6 expects for a target
ExpectedExclude(d) ==
    IF options.missing /\ options.action = "index"
    THEN options.excludes \o <<PkIn(ScanIds(IndexName(d)))>>
    ELSE options.excludes

\* C6: for every target, however it was selected, the exclude predicate of
\* the pre-run count and of the indexing queryset is the operator's excludes
\* AND-ed with `pk in the ids already in the target's index` when the action
\* is index and --missing is set, and the operator's excludes otherwise.
C6_MissingExclude ==
    /\ \A i \in 1..Len(qsCalls) : qsCalls[i].exclude = ExpectedExclude(qsCalls[i].document)
    /\ \A i \in 1..Len(iqCalls) : iqCalls[i].exclude = ExpectedExclude(iqCalls[i].document)

C9_DatabasePinned ==
    options.database # "None" =>
        \A j \in 1..Len(iqCalls) : iqCalls[j].db_alias = options.database

\* C10: when the execution phase is reached kwargs_list has one entry per
\* resolved target, the i-th holding the filter, exclude and count the i-th
\* target's pre-run count was computed with, and each target is executed with
\* exactly those: the zip drops no target and pairs none with another's.
C10_KwargsMatchTargets ==
    /\ pc \in {"execute", "done"} =>
          /\ Len(kwargs_list) = Len(Targets)
          /\ Len(qsCalls) = Len(Targets)
          /\ Len(s) = Len(Targets)
          /\ \A i \in 1..Len(Targets) :
                /\ qsCalls[i].document = Targets[i]
                /\ kwargs_list[i].filter_ = qsCalls[i].filter_
                /\ kwargs_list[i].exclude = qsCalls[i].exclude
                /\ kwargs_list[i].count = qsCalls[i].count
                /\ s[i] = <<StoreCount(Targets[i], kwargs_list[i].filter_, kwargs_list[i].exclude),
                            DjangoModel(Targets[i])>>
    /\ \A j \in 1..Len(iqCalls) :
          /\ iqCalls[j].document = Targets[j]
          /\ iqCalls[j].filter_ = kwargs_list[j].filter_
          /\ iqCalls[j].exclude = kwargs_list[j].exclude
          /\ iqCalls[j].count = kwargs_list[j].count
    /\ pc = "done" => Len(iqCalls) = Len(Targets)

\* C10 witness: two targets were executed with excludes that differ, each
\* with its own.
C10_Witness ==
    /\ pc = "done"
    /\ Len(kwargs_list) = 2
    /\ kwargs_list[1].exclude # kwargs_list[2].exclude
    /\ Len(iqCalls) = 2

====
